---- MODULE Spec2Model ----
(***************************************************************************)
(* State-machine model of picosdk/picosdk.py: one PicoScopeBase session    *)
(* (class ps6000a or ps5000a) driven by an arbitrary caller, together with *)
(* the native driver the session calls through ctypes.                     *)
(*                                                                         *)
(* Every native call is recorded in `log` (the calls of the current or     *)
(* last invocation) with the status the driver returned, so that the       *)
(* properties can speak about what reached the driver and in which order.  *)
(***************************************************************************)
EXTENDS Integers, Sequences, FiniteSets

(***************************************************************************)
(* Bounds of the model.                                                    *)
(***************************************************************************)
\* buffers the model lets ctypes allocate before allocation is cut off
MaxBufs == 4
\* the CloseUnit counter saturates here
MaxCloseCount == 3
\* the largest sample count a block capture is asked for
MaxSamples == 7
\* the largest sample count a buffer is asked for
MaxCells == 2
\* the largest value a caller passes in the place of the datatype
MaxArg == 5

(***************************************************************************)
(* Program constants.                                                      *)
(***************************************************************************)
\* the success status, `status != 0` in _error_handler
PICO_OK == 0
\* POWER_SOURCE.SUPPLY_NOT_CONNECTED (constants.py), the warning status
SUPPLY_NOT_CONNECTED == 282
\* a fatal status the table knows (PICO_INVALID_HANDLE)
PICO_INVALID_HANDLE == 12
\* a status the table does not hold
PICO_UNLISTED == 65535
\* ctypes.c_short(): the handle before any OpenUnit
NoHandle == 0
\* the handle the driver hands out on a successful OpenUnit
DeviceHandle == 1

\* Python's None, and a value that is present
None == <<>>
Some(v) == <<v>>
The(o) == o[1]
Channels == {"A", "B"}
\* RANGE enum members a caller passes (indices into RANGE_LIST)
Ranges == {5, 6}
\* RESOLUTION enum members a caller passes
Resolutions == {0, 1}

\* ERROR_STRING (error_list.py): the fixed code -> message table
ERROR_STRING ==
    [c \in {PICO_OK, PICO_INVALID_HANDLE, SUPPLY_NOT_CONNECTED} |->
        CASE c = PICO_OK -> "PICO_OK"
          [] c = PICO_INVALID_HANDLE -> "PICO_INVALID_HANDLE"
          [] c = SUPPLY_NOT_CONNECTED -> "PICO_POWER_SUPPLY_NOT_CONNECTED"]

\* every status the driver of the model can return
Statuses == DOMAIN ERROR_STRING \cup {PICO_UNLISTED}

VARIABLES
    gen,        \* the class of the session: "ps6000a" or "ps5000a"
    sess,       \* the fields of the PicoScopeBase object
    drv,        \* the state of the native driver
    nextBuf,    \* identity of the next ctypes array to be created
    pc,         \* "idle", "poll" (inside the is_ready loop) or "dead"
    op,         \* the current or last invocation: its name and arguments
    err,        \* the exception the last invocation raised, or "none"
    ret,        \* what the last invocation returned
    log,        \* the native calls of the current or last invocation
    enabledReq  \* per channel, the enabled flag of its latest set_channel

vars == <<gen, sess, drv, nextBuf, pc, op, err, ret, log, enabledReq>>

(***************************************************************************)
(* The machine the methods run on: m = [sess, drv, log, nextBuf, exc].     *)
(* exc is the exception in flight ("none" while the method is running      *)
(* normally).                                                              *)
(***************************************************************************)
Min(a, b) == IF a < b THEN a ELSE b

\* the driver knows the handle the session passes
HandleValid(m) == m.drv.open /\ m.sess.handle = DeviceHandle

\* one entry of the call log; a run of not-ready IsReady polls is kept as
\* its latest poll, so that the unbounded loop has finitely many states
Record(l, e) ==
    IF /\ Len(l) > 0
       /\ l[Len(l)].fn = "IsReady" /\ l[Len(l)].ready = 0
       /\ e.fn = "IsReady" /\ e.ready = 0
    THEN [l EXCEPT ![Len(l)] = e]
    ELSE Append(l, e)

\* a call without arguments the model follows
NoArgs == [none |-> TRUE]

\* attr_function(*args): the call reaches the driver with arguments a, and the
\* driver answers status (and, for IsReady, the ready flag)
Invoke(m, fn, a, status, ready) ==
    [m EXCEPT !.log = Record(m.log, [fn |-> fn, args |-> a, status |-> status,
                                     ready |-> ready, valid |-> HandleValid(m)])]

\* what the driver can answer: with no valid handle every call fails
DriverStatuses(m) ==
    IF HandleValid(m) THEN Statuses ELSE {PICO_INVALID_HANDLE, PICO_UNLISTED}

\* OpenUnit succeeds only while the device is unclaimed
OpenStatuses(m) ==
    IF m.drv.open THEN {PICO_INVALID_HANDLE, PICO_UNLISTED} ELSE Statuses

\* the call took effect in the driver
Accepted(status) == status \in {PICO_OK, SUPPLY_NOT_CONNECTED}

\* ACTION.CLEAR_ALL | ACTION.ADD, the default action of the ps6000a buffer
\* calls: the driver drops every buffer registered before and adds this one
ClearAllAdd == "CLEAR_ALL|ADD"
\* the ps5000a SetDataBuffer has no action: the buffer replaces the channel's
NoAction == "none"

\* the signal generator settings of a device just opened
NoSigGen == [wave |-> 0, pk2pk |-> 0, offset |-> 0, freq |-> 0]

\* the driver's side of a native call that it accepted; a holds the
\* arguments of the call
DrvEffect(m, fn, a, status) ==
    IF ~Accepted(status) THEN m
    ELSE CASE fn = "OpenUnit" ->
                [m EXCEPT !.drv = [m.drv EXCEPT !.open = TRUE, !.closes = 0],
                          !.sess = [m.sess EXCEPT !.handle = DeviceHandle]]
           [] fn = "SetChannelOn" ->
                [m EXCEPT !.drv = [m.drv EXCEPT !.chan[a.channel] = Some(a.range)]]
           [] fn = "SetChannelOff" ->
                [m EXCEPT !.drv = [m.drv EXCEPT !.chan[a.channel] = None]]
           [] fn = "SetChannel" ->
                [m EXCEPT !.drv = [m.drv EXCEPT !.chan[a.channel] =
                                      IF a.enabled THEN Some(a.range) ELSE None]]
           [] fn = "SetSimpleTrigger" ->
                [m EXCEPT !.drv = [m.drv EXCEPT !.trig =
                    [channel |-> a.channel, threshold |-> a.threshold]]]
           [] fn = "SetDataBuffer" ->
                [m EXCEPT !.drv = [m.drv EXCEPT !.buf =
                    [c \in Channels |->
                        IF c = a.channel THEN a.buffer
                        ELSE IF a.action = ClearAllAdd THEN 0
                        ELSE m.drv.buf[c]]]]
           [] fn = "RunBlock" ->
                [m EXCEPT !.drv = [m.drv EXCEPT !.acq = "Armed"]]
           [] fn = "IsReady" ->
                [m EXCEPT !.drv = [m.drv EXCEPT !.acq =
                    IF a.ready # 0 /\ m.drv.acq = "Armed"
                    THEN "DataReady" ELSE m.drv.acq]]
           [] fn = "GetValues" ->
                [m EXCEPT !.drv = [m.drv EXCEPT !.acq = "Idle"]]
           [] fn = "SigGenFrequency" ->
                [m EXCEPT !.drv = [m.drv EXCEPT !.sig.freq = a.frequency]]
           [] fn = "SigGenRange" ->
                [m EXCEPT !.drv = [m.drv EXCEPT !.sig.pk2pk = a.pk2pk,
                                                !.sig.offset = a.offset]]
           [] fn = "SigGenWaveform" ->
                [m EXCEPT !.drv = [m.drv EXCEPT !.sig.wave = a.wavetype]]
           [] OTHER -> m

\* attr_function(*args) returning status
Native(m, fn, a, status) ==
    DrvEffect(Invoke(m, fn, a, status, IF fn = "IsReady" THEN a.ready ELSE 0),
              fn, a, status)

\* CloseUnit on a valid handle: the driver drops all it held for the device
DrvClosed(d) ==
    [d EXCEPT !.open = FALSE, !.acq = "Idle", !.trig = None, !.sig = NoSigGen,
              !.chan = [c \in Channels |-> None],
              !.buf = [c \in Channels |-> 0]]

close_unit(m) ==
    LET st == IF HandleValid(m) THEN PICO_OK ELSE PICO_INVALID_HANDLE
        m1 == Invoke(m, "CloseUnit", NoArgs, st, 0)
        d1 == IF HandleValid(m) THEN DrvClosed(m.drv) ELSE m.drv
    IN  [m1 EXCEPT !.drv =
            [d1 EXCEPT !.closes =
                IF m.sess.handle = DeviceHandle
                THEN Min(d1.closes + 1, MaxCloseCount) ELSE d1.closes]]

\* faulty variant: no status is treated as a warning
WarningCodes_none == {}

\* the statuses _error_handler treats as warnings
WarningCodes == {SUPPLY_NOT_CONNECTED}

_error_handler(m, status) ==
    IF status \notin DOMAIN ERROR_STRING
    THEN [m EXCEPT !.exc = "KeyError:ERROR_STRING"]
    ELSE IF status # PICO_OK
         THEN IF status \in WarningCodes
              THEN m
              ELSE [close_unit(m) EXCEPT !.exc = "PicoSDKException"]
         ELSE m

\* faulty variant: a call the driver did not answer with PICO_OK is made
\* once more before the status is handled
_call_attr_function_retry(m, fn, a, status) ==
    IF status # PICO_OK
    THEN _error_handler(Native(Native(m, fn, a, status), fn, a, status),
                        status)
    ELSE _error_handler(Native(m, fn, a, status), status)

_call_attr_function(m, fn, a, status) ==
    _error_handler(Native(m, fn, a, status), status)

Raised(m) == m.exc # "none"

(***************************************************************************)
(* Device session                                                          *)
(***************************************************************************)
_open_unit(m, resolution, status) ==
    LET m1 == _call_attr_function(m, "OpenUnit", NoArgs, status)
    IN  IF Raised(m1) THEN m1
        ELSE [m1 EXCEPT !.sess = [m1.sess EXCEPT
                                    !.resolution = Some(resolution)]]

\* the ADC ceiling the driver reports for a resolution
DrvMaxAdc(resolution) == IF resolution = 0 THEN 127 ELSE 32767

_get_adc_limits(m, status) ==
    IF m.sess.resolution = None
    THEN [m EXCEPT !.exc = "PicoSDKException"]
    ELSE _call_attr_function(m, "GetAdcLimits", NoArgs, status)

_get_maximum_adc_value(m, status) ==
    _call_attr_function(m, "MaximumValue", NoArgs, status)

ps6000a_open_unit(m, resolution, s1, s2) ==
    LET m1 == _open_unit(m, resolution, s1)
        m2 == _get_adc_limits(m1, s2)
    IN  IF Raised(m1) THEN m1
        ELSE IF Raised(m2) THEN m2
        ELSE [m2 EXCEPT !.sess = [m2.sess EXCEPT
                !.min_adc_value = Some(0 - DrvMaxAdc(resolution)),
                !.max_adc_value = Some(DrvMaxAdc(resolution))]]

ps5000a_open_unit(m, resolution, s1, s2) ==
    LET m1 == _open_unit(m, resolution, s1)
        m2 == _get_maximum_adc_value(m1, s2)
    IN  IF Raised(m1) THEN m1
        ELSE IF Raised(m2) THEN m2
        ELSE [m2 EXCEPT !.sess = [m2.sess EXCEPT
                !.max_adc_value = Some(DrvMaxAdc(resolution))]]

(***************************************************************************)
(* Channel and trigger configuration                                       *)
(***************************************************************************)
\* self.range[channel] = range: a dict keeps the position of a key it has
DictSet(s, channel, range) ==
    [s EXCEPT !.range = [c \in DOMAIN s.range \cup {channel} |->
                            IF c = channel THEN range ELSE s.range[c]],
              !.keys = IF channel \in DOMAIN s.range THEN s.keys
                       ELSE Append(s.keys, channel)]

_set_channel_on(m, channel, range, status) ==
    LET m0 == [m EXCEPT !.sess = DictSet(m.sess, channel, range)]
        m1 == Native(m0, "SetChannelOn",
                     [channel |-> channel, range |-> range], status)
    IN  _error_handler(m1, status)

_set_channel_off(m, channel, status) ==
    _error_handler(Native(m, "SetChannelOff", [channel |-> channel], status),
                   status)

_set_channel(m, channel, range, enabled, status) ==
    LET m0 == [m EXCEPT !.sess = DictSet(m.sess, channel, range)]
        m1 == Native(m0, "SetChannel",
                     [channel |-> channel, range |-> range,
                      enabled |-> enabled], status)
    IN  _error_handler(m1, status)

ps6000a_set_channel(m, channel, range, enabled, status) ==
    IF enabled
    THEN _set_channel_on(m, channel, range, status)
    ELSE _set_channel_off(m, channel, status)

ps5000a_set_channel(m, channel, range, enabled, status) ==
    _set_channel(m, channel, range, enabled, status)

\* RANGE_LIST (constants.py): the millivolt span of a RANGE member
RANGE_LIST == [r \in Ranges |-> IF r = 5 THEN 500 ELSE 1000]

\* int(x / y) for the float quotient of integers: truncation toward zero
TruncDiv(x, y) == IF x >= 0 THEN x \div y ELSE 0 - ((0 - x) \div y)

\* int((mv / channel_range_mv) * self.max_adc_value), max_adc_value set, for
\* a whole number of millivolts whose quotient by the span is exact
mv_to_adc(max_adc_value, mv, channel_range) ==
    TruncDiv(mv * max_adc_value, RANGE_LIST[channel_range])

\* Python floats are modelled as binary fixed-point numbers, a float x as the
\* integer x * Scale.  The grid is coarser than the double's, so the double
\* a division yields lies between the two grid neighbours of the exact
\* quotient: a quotient off the grid is rounded down (rnd = 0) or up
\* (rnd = 1), one on the grid is exact.  Products of a grid value and an
\* integer stay on the grid.
Scale == 65536

\* xs / d for the float xs and the integer d
FloatDiv(xs, d, rnd) ==
    IF xs % d = 0 THEN xs \div d ELSE (xs \div d) + rnd

\* (float(adc) / float(self.max_adc_value)) * channel_range_mv
adc_to_mv(max_adc_value, adc, channel_range, rnd) ==
    FloatDiv(adc * Scale, max_adc_value, rnd) * RANGE_LIST[channel_range]

\* faulty variant: the span of RANGE member 5 is used for every range
mv_to_adc_float_one_span(max_adc_value, mvs, channel_range, rnd) ==
    TruncDiv(FloatDiv(mvs, RANGE_LIST[5], rnd) * max_adc_value, Scale)

\* int((mv / channel_range_mv) * self.max_adc_value) for the float mv
mv_to_adc_float(max_adc_value, mvs, channel_range, rnd) ==
    TruncDiv(FloatDiv(mvs, RANGE_LIST[channel_range], rnd) * max_adc_value,
             Scale)

set_simple_trigger(m, channel, threshold_mv, status) ==
    IF channel \notin DOMAIN m.sess.range
    THEN [m EXCEPT !.exc = "KeyError:range"]
    ELSE IF m.sess.max_adc_value = None
    THEN [m EXCEPT !.exc = "TypeError"]
    ELSE LET threshold_adc == mv_to_adc(The(m.sess.max_adc_value), threshold_mv,
                                        m.sess.range[channel])
         IN  _error_handler(
                Native(m, "SetSimpleTrigger",
                       [channel |-> channel, threshold |-> threshold_adc],
                       status),
                status)

_get_timebase(m, status) ==
    _error_handler(Native(m, "GetTimebase", NoArgs, status), status)

_get_timebase_2(m, status) ==
    _error_handler(Native(m, "GetTimeBase2", NoArgs, status), status)

(***************************************************************************)
(* Buffer manager                                                          *)
(***************************************************************************)
\* DATA_TYPE members (constants.py)
INT8_T == 0
INT16_T == 1
INT32_T == 2
UINT32_T == 3
INT64_T == 4
DataTypes == {INT8_T, INT16_T, INT32_T, INT64_T, UINT32_T}

\* an argument the caller leaves out (None) takes the default of the signature
Default(arg, d) == IF arg = None THEN d ELSE The(arg)

\* faulty variant: the array created first is handed out again
NewBuffer_reused(m) == 1

\* buffer = buffer(): ctypes creates a new array object
NewBuffer(m) == m.nextBuf

\* faulty variant: the array is one element short
Zeros_short(samples) == [i \in 1..(samples - 1) |-> 0]

\* (ctype * samples)(): ctypes zero-fills the samples elements of a new array
Zeros(samples) == [i \in 1..samples |-> 0]

\* the ctypes element type chosen for a datatype
CType(datatype) ==
    CASE datatype = INT8_T -> "c_int8"
      [] datatype = INT16_T -> "c_int16"
      [] datatype = INT32_T -> "c_int32"
      [] datatype = INT64_T -> "c_int64"
      [] datatype = UINT32_T -> "c_uint32"

_set_data_buffer_ps5000a(m, channel, samples, ratio_mode, status) ==
    LET buffer == NewBuffer(m)
        m0 == [m EXCEPT !.nextBuf = m.nextBuf + 1]
        m1 == _call_attr_function(m0, "SetDataBuffer",
                  [channel |-> channel, buffer |-> buffer,
                   ctype |-> "c_int16", cells |-> Zeros(samples),
                   samples |-> samples, ratio_mode |-> ratio_mode,
                   action |-> NoAction], status)
    IN  IF Raised(m1) THEN m1
        ELSE [m1 EXCEPT !.val = [c \in {channel} |-> buffer]]

\* faulty variant: an unknown datatype falls back to 16-bit elements
_set_data_buffer_ps6000a_fallback(m, channel, samples, datatype, status) ==
    LET buffer == NewBuffer(m)
        m0 == [m EXCEPT !.nextBuf = m.nextBuf + 1]
        m1 == _call_attr_function(m0, "SetDataBuffer",
                  [channel |-> channel, buffer |-> buffer,
                   ctype |-> IF datatype \in DataTypes THEN CType(datatype)
                             ELSE "c_int16",
                   cells |-> Zeros(samples),
                   samples |-> samples, datatype |-> datatype,
                   action |-> ClearAllAdd], status)
    IN  IF Raised(m1) THEN m1
        ELSE [m1 EXCEPT !.val = [c \in {channel} |-> buffer]]

_set_data_buffer_ps6000a(m, channel, samples, datatype, status) ==
    IF datatype \notin DataTypes
    THEN [m EXCEPT !.exc = "PicoSDKException"]
    ELSE LET buffer == NewBuffer(m)
             m0 == [m EXCEPT !.nextBuf = m.nextBuf + 1]
             m1 == _call_attr_function(m0, "SetDataBuffer",
                       [channel |-> channel, buffer |-> buffer,
                        ctype |-> CType(datatype), cells |-> Zeros(samples),
                        samples |-> samples, datatype |-> datatype,
                        action |-> ClearAllAdd], status)
         IN  IF Raised(m1) THEN m1
             ELSE [m1 EXCEPT !.val = [c \in {channel} |-> buffer]]

\* ps6000a.set_data_buffer(channel, samples, segment=0,
\* datatype=DATA_TYPE.INT16_T, ...); segment is always 0 in the model
ps6000a_set_data_buffer(m, channel, samples, datatype, status) ==
    _set_data_buffer_ps6000a(m, channel, samples,
                             Default(datatype, INT16_T), status)

\* ps5000a.set_data_buffer(channel, samples, segment=0, ratio_mode=0)
ps5000a_set_data_buffer(m, channel, samples, ratio_mode, status) ==
    _set_data_buffer_ps5000a(m, channel, samples,
                             Default(ratio_mode, 0), status)

\* obj.set_data_buffer(channel, samples, 0, arg4): Python binds the fourth
\* positional argument to the fourth parameter of the class of obj
set_data_buffer(g, m, channel, samples, arg4, status) ==
    IF g = "ps6000a"
    THEN ps6000a_set_data_buffer(m, channel, samples, arg4, status)
    ELSE ps5000a_set_data_buffer(m, channel, samples, arg4, status)

\* for channel in self.range: channels_buffer[channel] = ...; the loop from
\* the i-th key on, st[i] the status the driver returns for that key
RECURSIVE for_channel_in_range(_, _, _, _, _, _, _)
for_channel_in_range(g, m, samples, arg3, i, st, channels_buffer) ==
    IF i > Len(m.sess.keys)
    THEN [m EXCEPT !.val = channels_buffer]
    ELSE LET channel == m.sess.keys[i]
             m1 == set_data_buffer(g, m, channel, samples, arg3, st[i])
         IN  IF Raised(m1) THEN m1
             ELSE for_channel_in_range(g, m1, samples, arg3, i + 1, st,
                     [c \in DOMAIN channels_buffer \cup {channel} |->
                         IF c = channel THEN m1.val[channel]
                         ELSE channels_buffer[c]])

\* obj.set_data_buffer_for_enabled_channels(samples, 0, arg3): the third
\* positional argument is datatype on ps6000a and ratio_mode on ps5000a
set_data_buffer_for_enabled_channels(g, m, samples, arg3, st) ==
    for_channel_in_range(g, m, samples, arg3, 1, st, <<>>)

\* PicoScopeBase.set_data_buffer_for_enabled_channels(): the body evaluates
\* NotImplemented("..."), a call of an object that is not callable
PicoScopeBase_set_data_buffer_for_enabled_channels(m) ==
    [m EXCEPT !.exc = "TypeError"]

(***************************************************************************)
(* Acquisition                                                             *)
(***************************************************************************)
\* faulty variant: the percentage is taken of 128
pre_samples_shift(samples, pre_trig_percent) ==
    TruncDiv(samples * pre_trig_percent, 128)

\* pre_samples = int((samples * pre_trig_percent) / 100): the product of the
\* two ints is exact, `/` is true division and int() truncates toward zero
pre_samples(samples, pre_trig_percent) ==
    TruncDiv(samples * pre_trig_percent, 100)

run_block_capture(m, samples, pre_trig_percent, status) ==
    LET pre == pre_samples(samples, pre_trig_percent)
        post_samples == samples - pre
    IN  _call_attr_function(m, "RunBlock",
            [pre_samples |-> pre, post_samples |-> post_samples], status)

\* one turn of the while True loop of is_ready, up to the test of ready
is_ready_poll(m, status, ready) ==
    _error_handler(Native(m, "IsReady", [ready |-> ready], status), status)

\* faulty variant: the loop ends on a poll that is not ready
ReadyBreak_inverted(ready) == ready = 0

\* faulty variant: the loop ends after its first poll
ReadyBreak_always(ready) == TRUE

\* if ready.value != 0: break
ReadyBreak(ready) == ready # 0

\* what the driver writes through the pointers of GetValues: the number of
\* samples it retrieved, which falls short of the number asked for by some
\* k of K, and the overflow flags, some o of O
GetValuesOutputs(samples, K, O) ==
    {[total_samples |-> samples - k, overflow |-> o] :
        k \in {j \in K : j <= samples}, o \in O}

\* get_values after is_ready() has returned; out is what the driver wrote
get_values_retrieve(m, samples, out, status) ==
    LET m1 == _call_attr_function(m, "GetValues",
                  [samples |-> samples, total_samples |-> out.total_samples,
                   overflow |-> out.overflow], status)
    IN  IF Raised(m1) THEN m1
        ELSE [m1 EXCEPT !.val = [total_samples |-> out.total_samples]]

\* run_simple_block_capture up to the call of get_values; datatype and
\* pre_trig_percent are left at their defaults
ps6000a_run_simple_block_capture(m, samples, st, status) ==
    LET m1 == set_data_buffer_for_enabled_channels("ps6000a", m, samples,
                                                   None, st)
        m2 == run_block_capture(m1, samples, 50, status)
    IN  IF Raised(m1) THEN m1
        ELSE IF Raised(m2) THEN m2
        ELSE [m2 EXCEPT !.val = m1.val]

PicoScopeBase_run_simple_block_capture(m) ==
    [m EXCEPT !.exc = "NotImplementedError"]

(***************************************************************************)
(* Signal generator                                                        *)
(***************************************************************************)
_siggen_apply(m, status) ==
    _call_attr_function(m, "SigGenApply", NoArgs, status)

_siggen_set_frequency(m, frequency, status) ==
    _call_attr_function(m, "SigGenFrequency", [frequency |-> frequency],
                        status)

_siggen_set_range(m, pk2pk, offset, status) ==
    _call_attr_function(m, "SigGenRange",
                        [pk2pk |-> pk2pk, offset |-> offset], status)

\* self._call_attr_function('SigGenRange', self.handle, wavetype, 0, 0): the
\* entry point is SigGenRange, which takes wavetype as its pk2pk and the
\* first 0 as its offset; the argument beyond its signature is not read
_siggen_set_waveform(m, wavetype, status) ==
    _call_attr_function(m, "SigGenRange",
                        [pk2pk |-> wavetype, offset |-> 0, extra |-> 0],
                        status)

(***************************************************************************)
(* The session object and its caller                                       *)
(***************************************************************************)
\* PicoScopeBase.__init__
NewSession ==
    [handle |-> NoHandle, range |-> <<>>, keys |-> <<>>, resolution |-> None,
     max_adc_value |-> None, min_adc_value |-> None]

NewDriver ==
    [open |-> FALSE, closes |-> 0, chan |-> [c \in Channels |-> None],
     trig |-> None, buf |-> [c \in Channels |-> 0], acq |-> "Idle",
     sig |-> NoSigGen]

\* an invocation: the method and the arguments the model follows (arg is
\* the optional positional argument after segment)
Call(name) ==
    [name |-> name, channel |-> "-", range |-> 0, enabled |-> FALSE,
     samples |-> 0, pre_trig_percent |-> 0, arg |-> None, adc |-> 0,
     value |-> 0, offset |-> 0]

Init ==
    /\ gen \in {"ps6000a", "ps5000a"}
    /\ sess = NewSession
    /\ drv = NewDriver
    /\ nextBuf = 1
    /\ pc = "idle"
    /\ op = Call("__init__")
    /\ err = "none"
    /\ ret = <<>>
    /\ log = <<>>
    /\ enabledReq = [c \in Channels |-> FALSE]

\* the machine at the start of an invocation
Enter ==
    [sess |-> sess, drv |-> drv, log |-> <<>>, nextBuf |-> nextBuf,
     exc |-> "none", val |-> <<>>]

\* the machine inside the invocation in progress
Resume ==
    [sess |-> sess, drv |-> drv, log |-> log, nextBuf |-> nextBuf,
     exc |-> "none", val |-> ret]

\* the invocation ends: it returns m.val or raises m.exc
Leave(m, o, next) ==
    /\ sess' = m.sess
    /\ drv' = m.drv
    /\ log' = m.log
    /\ nextBuf' = m.nextBuf
    /\ err' = m.exc
    /\ ret' = IF Raised(m) THEN <<>> ELSE m.val
    /\ op' = o
    /\ pc' = next
    /\ UNCHANGED gen

Idle == pc = "idle"

\* the answers of the driver to the calls of a loop over n keys: the loop
\* ends at the first answer that makes _error_handler raise, so the answers
\* after it are never given (they are fixed to PICO_OK)
LoopStatuses(n, S) ==
    {st \in [1..n -> S \cup {PICO_OK}] :
        \A i \in 1..n :
            IF \E j \in 1..(i - 1) : ~Accepted(st[j])
            THEN st[i] = PICO_OK
            ELSE st[i] \in S}

\* the answers to a call that is made only if the calls before it succeeded
After(made, S) == IF made THEN S ELSE {PICO_OK}

OpenUnit(R) ==
    /\ Idle
    /\ \E resolution \in R, s1 \in OpenStatuses(Enter) :
        \E s2 \in After(Accepted(s1), Statuses) :
            Leave(IF gen = "ps6000a"
                  THEN ps6000a_open_unit(Enter, resolution, s1, s2)
                  ELSE ps5000a_open_unit(Enter, resolution, s1, s2),
                  Call("open_unit"), "idle")
    /\ UNCHANGED enabledReq

CloseUnit ==
    /\ Idle
    /\ Leave(close_unit(Enter), Call("close_unit"), "idle")
    /\ UNCHANGED enabledReq

\* __del__: the session is torn down
Del ==
    /\ Idle
    /\ Leave(close_unit(Enter), Call("__del__"), "dead")
    /\ UNCHANGED enabledReq

SetChannel(C, R) ==
    /\ Idle
    /\ \E channel \in C, range \in R, enabled \in BOOLEAN,
          status \in DriverStatuses(Enter) :
        /\ Leave(IF gen = "ps6000a"
                 THEN ps6000a_set_channel(Enter, channel, range, enabled, status)
                 ELSE ps5000a_set_channel(Enter, channel, range, enabled, status),
                 [Call("set_channel") EXCEPT !.channel = channel,
                      !.range = range, !.enabled = enabled], "idle")
        /\ enabledReq' = [enabledReq EXCEPT ![channel] = enabled]

SetSimpleTrigger(C, T) ==
    /\ Idle
    /\ \E channel \in C, threshold_mv \in T, status \in DriverStatuses(Enter) :
        Leave(set_simple_trigger(Enter, channel, threshold_mv, status),
              [Call("set_simple_trigger") EXCEPT !.channel = channel], "idle")
    /\ UNCHANGED enabledReq

GetTimebase ==
    /\ Idle
    /\ \E status \in DriverStatuses(Enter) :
        Leave(IF gen = "ps6000a" THEN _get_timebase(Enter, status)
              ELSE _get_timebase_2(Enter, status),
              Call("get_timebase"), "idle")
    /\ UNCHANGED enabledReq

SetDataBuffer(C, S, D) ==
    /\ Idle
    /\ nextBuf <= MaxBufs
    /\ \E channel \in C, samples \in S, arg4 \in D,
          status \in DriverStatuses(Enter) :
        Leave(set_data_buffer(gen, Enter, channel, samples, arg4, status),
              [Call("set_data_buffer") EXCEPT !.channel = channel,
                   !.samples = samples, !.arg = arg4], "idle")
    /\ UNCHANGED enabledReq

SetDataBufferForEnabledChannels(S, D) ==
    /\ Idle
    /\ nextBuf + Len(sess.keys) <= MaxBufs + 1
    /\ \E samples \in S, arg3 \in D,
          st \in LoopStatuses(Len(sess.keys), DriverStatuses(Enter)) :
        Leave(set_data_buffer_for_enabled_channels(gen, Enter, samples,
                                                   arg3, st),
              [Call("set_data_buffer_for_enabled_channels") EXCEPT
                   !.samples = samples, !.arg = arg3], "idle")
    /\ UNCHANGED enabledReq

\* the method called on the base class
BaseSetDataBufferForEnabledChannels ==
    /\ Idle
    /\ Leave(PicoScopeBase_set_data_buffer_for_enabled_channels(Enter),
             Call("PicoScopeBase.set_data_buffer_for_enabled_channels"),
             "idle")
    /\ UNCHANGED enabledReq

RunBlockCapture(S, P) ==
    /\ Idle
    /\ \E samples \in S, pre_trig_percent \in P,
          status \in DriverStatuses(Enter) :
        Leave(run_block_capture(Enter, samples, pre_trig_percent, status),
              [Call("run_block_capture") EXCEPT !.samples = samples,
                   !.pre_trig_percent = pre_trig_percent], "idle")
    /\ UNCHANGED enabledReq

\* is_ready() and get_values() start with the readiness loop
IsReady ==
    /\ Idle
    /\ Leave(Enter, Call("is_ready"), "poll")
    /\ UNCHANGED enabledReq

GetValues(S) ==
    /\ Idle
    /\ \E samples \in S :
        Leave(Enter, [Call("get_values") EXCEPT !.samples = samples], "poll")
    /\ UNCHANGED enabledReq

RunSimpleBlockCapture(S) ==
    /\ Idle
    /\ nextBuf + Len(sess.keys) <= MaxBufs + 1
    /\ \E samples \in S :
        LET o == [Call("run_simple_block_capture") EXCEPT
                      !.samples = samples, !.pre_trig_percent = 50]
        IN  IF gen = "ps6000a"
            THEN \E st \in LoopStatuses(Len(sess.keys), DriverStatuses(Enter)) :
                   \E status \in After(\A i \in DOMAIN st : Accepted(st[i]),
                                       DriverStatuses(Enter)) :
                     LET m == ps6000a_run_simple_block_capture(Enter, samples,
                                                               st, status)
                     IN  Leave(m, o, IF Raised(m) THEN "idle" ELSE "poll")
            ELSE Leave(PicoScopeBase_run_simple_block_capture(Enter), o, "idle")
    /\ UNCHANGED enabledReq

\* scope.adc_to_mv(adc, channel_range) for a code the ADC can produce
AdcToMv(A, R) ==
    /\ Idle
    /\ \E adc \in A, channel_range \in R, rnd \in {0, 1} :
        LET o == [Call("adc_to_mv") EXCEPT !.adc = adc, !.range = channel_range]
        IN  IF sess.max_adc_value = None
            THEN Leave([Enter EXCEPT !.exc = "TypeError"], o, "idle")
            ELSE /\ adc <= The(sess.max_adc_value)
                 /\ 0 - adc <= The(sess.max_adc_value)
                 /\ Leave([Enter EXCEPT !.val =
                              [mv |-> adc_to_mv(The(sess.max_adc_value), adc,
                                                channel_range, rnd)]],
                          o, "idle")
    /\ UNCHANGED enabledReq

\* scope.mv_to_adc(mv, channel_range) for the mv adc_to_mv has just returned
MvToAdc ==
    /\ Idle
    /\ op.name = "adc_to_mv" /\ err = "none"
    /\ \E rnd \in {0, 1} :
        LET o == [op EXCEPT !.name = "mv_to_adc"]
        IN  IF sess.max_adc_value = None
            THEN Leave([Enter EXCEPT !.exc = "TypeError"], o, "idle")
            ELSE Leave([Enter EXCEPT !.val =
                          [adc |-> mv_to_adc_float(The(sess.max_adc_value),
                                                   ret.mv, op.range, rnd)]],
                       o, "idle")
    /\ UNCHANGED enabledReq

SigGenApply ==
    /\ Idle
    /\ \E status \in DriverStatuses(Enter) :
        Leave(_siggen_apply(Enter, status), Call("_siggen_apply"), "idle")
    /\ UNCHANGED enabledReq

SigGenSetFrequency(F) ==
    /\ Idle
    /\ \E frequency \in F, status \in DriverStatuses(Enter) :
        Leave(_siggen_set_frequency(Enter, frequency, status),
              [Call("_siggen_set_frequency") EXCEPT !.value = frequency],
              "idle")
    /\ UNCHANGED enabledReq

SigGenSetRange(P, O) ==
    /\ Idle
    /\ \E pk2pk \in P, offset \in O, status \in DriverStatuses(Enter) :
        Leave(_siggen_set_range(Enter, pk2pk, offset, status),
              [Call("_siggen_set_range") EXCEPT !.value = pk2pk,
                   !.offset = offset], "idle")
    /\ UNCHANGED enabledReq

SigGenSetWaveform(W) ==
    /\ Idle
    /\ \E wavetype \in W, status \in DriverStatuses(Enter) :
        Leave(_siggen_set_waveform(Enter, wavetype, status),
              [Call("_siggen_set_waveform") EXCEPT !.value = wavetype],
              "idle")
    /\ UNCHANGED enabledReq

\* one turn of the readiness loop and, when the loop ends, the rest of the
\* method that called is_ready; the driver answers with a status of S and a
\* ready flag of R, and GetValues with a shortfall of K and the flags of O
PollAnswer(S, R, K, O) ==
    /\ pc = "poll"
    /\ \E status \in DriverStatuses(Resume) \cap S :
        \E ready \in After(Accepted(status), R) :
            LET m1 == is_ready_poll(Resume, status, ready)
            IN  IF Raised(m1) THEN Leave(m1, op, "idle")
                ELSE IF ~ReadyBreak(ready) THEN Leave(m1, op, "poll")
                ELSE IF op.name = "is_ready"
                     THEN Leave([m1 EXCEPT !.val = <<>>], op, "idle")
                ELSE \E s2 \in DriverStatuses(m1) :
                       \E out \in GetValuesOutputs(op.samples, K, O) :
                         LET m2 == get_values_retrieve(m1, op.samples, out, s2)
                         IN  Leave(IF op.name = "get_values" \/ Raised(m2)
                                   THEN m2 ELSE [m2 EXCEPT !.val = m1.val],
                                   op, "idle")
    /\ UNCHANGED enabledReq

Poll == PollAnswer(Statuses, {0, 1}, {0, 1}, {0, 1})

\* the turn with a driver that retrieves every sample and reports no overflow
PollFullBlock == PollAnswer(Statuses, {0, 1}, {0}, {0})

\* a turn of the loop in which the driver reports the data ready
ReadyReported ==
    PollAnswer({s \in Statuses : Accepted(s)}, {1}, {0, 1}, {0, 1})

(***************************************************************************)
(* Callers.  A caller invokes the methods in any order; the callers differ  *)
(* in the methods they use and in the arguments they pass.                 *)
(***************************************************************************)
\* a caller that works with one channel at one range
Next ==
    \/ OpenUnit({1})
    \/ CloseUnit
    \/ Del
    \/ SetChannel({"A"}, {5})
    \/ SetSimpleTrigger({"A"}, {500})
    \/ GetTimebase
    \/ SetDataBuffer({"A"}, {1}, {None})
    \/ SetDataBufferForEnabledChannels({1}, {None})
    \/ RunBlockCapture({1}, {50})
    \/ IsReady
    \/ GetValues({1})
    \/ RunSimpleBlockCapture({1})
    \/ Poll

Spec == Init /\ [][Next]_vars

\* a caller that configures two channels and captures blocks from them
NextChannels ==
    \/ OpenUnit({1})
    \/ CloseUnit
    \/ SetChannel(Channels, {5})
    \/ SetDataBufferForEnabledChannels({1}, {None})
    \/ RunSimpleBlockCapture({1})
    \/ PollFullBlock

SpecChannels == Init /\ [][NextChannels]_vars

\* a caller that arms block captures and waits for them.  The loop of
\* is_ready has no sleep and no exit but break and raise, so a turn that can
\* be taken is taken (WF); that the driver reports ready at some turn is the
\* behaviour of a device that triggers (SF)
NextPolling ==
    \/ OpenUnit({1})
    \/ CloseUnit
    \/ RunBlockCapture({1}, {50})
    \/ IsReady
    \/ GetValues({1})
    \/ Poll

SpecPolling ==
    Init /\ [][NextPolling]_vars /\ WF_vars(Poll) /\ SF_vars(ReadyReported)

\* what a caller passes after segment: nothing, a DATA_TYPE member, or a
\* value that is no DATA_TYPE member
BufferArgs == {None} \cup {Some(d) : d \in 0..MaxArg}

\* the last invocation asked for buffers
BufferRequest ==
    op.name \in {"set_data_buffer", "set_data_buffer_for_enabled_channels"}

\* a caller that asks for buffers of every size and element type, never
\* twice in a row
NextBuffers ==
    \/ OpenUnit({1})
    \/ SetChannel({"A"}, {5})
    \/ (~BufferRequest /\ SetDataBuffer({"A"}, 0..MaxCells, BufferArgs))
    \/ (~BufferRequest
        /\ SetDataBufferForEnabledChannels(0..MaxCells, BufferArgs))
    \/ BaseSetDataBufferForEnabledChannels

SpecBuffers == Init /\ [][NextBuffers]_vars

\* the codes the caller converts: every code of the 8-bit resolution and
\* the codes at both ends of the 16-bit resolution
Codes ==
    LET lo == DrvMaxAdc(0)
        hi == DrvMaxAdc(1)
    IN  ((0 - lo)..lo) \cup ((hi - 7)..hi) \cup ((0 - hi)..(7 - hi))

\* a caller that opens the device and converts a code to millivolts and
\* back, once per open
NextConv ==
    \/ OpenUnit(Resolutions)
    \/ CloseUnit
    \/ (op.name \notin {"adc_to_mv", "mv_to_adc"} /\ AdcToMv(Codes, Ranges))
    \/ MvToAdc

SpecConv == Init /\ [][NextConv]_vars

\* a caller that sets channel A to either range, sets a trigger of 500 mV on
\* it and arms captures
NextTrigger ==
    \/ OpenUnit({1})
    \/ CloseUnit
    \/ SetChannel({"A"}, Ranges)
    \/ SetSimpleTrigger({"A"}, {500})
    \/ RunBlockCapture({1}, {50})

SpecTrigger == Init /\ [][NextTrigger]_vars

\* a caller that sets up the signal generator: waveform types 17 and 18,
\* ranges in mV, frequencies in Hz
NextSigGen ==
    \/ OpenUnit({1})
    \/ CloseUnit
    \/ SigGenSetFrequency({1000, 2000})
    \/ SigGenSetRange({1000, 2000}, {0, 100})
    \/ SigGenSetWaveform({17, 18})
    \/ SigGenApply

SpecSigGen == Init /\ [][NextSigGen]_vars

\* a caller that arms block captures of every size up to MaxSamples with
\* every whole pre-trigger percentage, never two in a row
NextBlock ==
    \/ OpenUnit({1})
    \/ CloseUnit
    \/ (op.name # "run_block_capture"
        /\ RunBlockCapture(0..MaxSamples, 0..100))

SpecBlock == Init /\ [][NextBlock]_vars

\* the same caller with a driver that may never report ready
SpecPollingNoTrigger == Init /\ [][NextPolling]_vars /\ WF_vars(Poll)

(***************************************************************************)
(* Observations the properties are stated with                             *)
(***************************************************************************)
\* the session is Ready: the driver holds the device open for its handle
Ready == drv.open /\ sess.handle = DeviceHandle

\* the invocation has returned or raised
Done == pc = "idle" \/ pc = "dead"

IsWaiting(e) == e.fn = "IsReady" /\ e.ready = 0
NotWaiting(e) == ~IsWaiting(e)

\* the native calls of the invocation, the not-ready polls left out
Made == SelectSeq(log, NotWaiting)

Fns(l) == [i \in 1..Len(l) |-> l[i].fn]

\* nextBuf when the invocation started: every allocation is followed by its
\* SetDataBuffer call
BufBase == nextBuf - Len(SelectSeq(log, LAMBDA e : e.fn = "SetDataBuffer"))

\* the native calls a method makes when every call succeeds
SuccessPath(o) ==
    LET buffers == [i \in 1..Len(sess.keys) |-> "SetDataBuffer"]
    IN  CASE o.name = "open_unit" ->
                <<"OpenUnit", IF gen = "ps6000a" THEN "GetAdcLimits"
                                                 ELSE "MaximumValue">>
          [] o.name = "set_channel" ->
                IF gen = "ps5000a" THEN <<"SetChannel">>
                ELSE IF o.enabled THEN <<"SetChannelOn">>
                ELSE <<"SetChannelOff">>
          [] o.name = "set_simple_trigger" -> <<"SetSimpleTrigger">>
          [] o.name = "get_timebase" ->
                IF gen = "ps6000a" THEN <<"GetTimebase">> ELSE <<"GetTimeBase2">>
          [] o.name = "set_data_buffer" -> <<"SetDataBuffer">>
          [] o.name = "set_data_buffer_for_enabled_channels" -> buffers
          [] o.name = "run_block_capture" -> <<"RunBlock">>
          [] o.name = "is_ready" -> <<"IsReady">>
          [] o.name = "get_values" -> <<"IsReady", "GetValues">>
          [] o.name = "run_simple_block_capture" ->
                buffers \o <<"RunBlock", "IsReady", "GetValues">>
          [] OTHER -> <<"CloseUnit">>

\* the calls through which a session is configured and a block captured
ConfigCaptureCalls ==
    {"SetChannelOn", "SetChannelOff", "SetChannel", "SetSimpleTrigger",
     "GetTimebase", "GetTimeBase2", "SetDataBuffer", "RunBlock", "IsReady",
     "GetValues"}

(***************************************************************************)
(* Properties                                                              *)
(***************************************************************************)
\* C1: whenever the driver answered a native call with a non-zero status
\* other than the warning status, the session is Closed when the error
\* reaches the caller: no such outcome leaves the session Ready.
C1_FatalStatusClosesSession ==
    \A i \in 1..Len(log) :
        (/\ log[i].fn # "CloseUnit"
         /\ log[i].status # PICO_OK
         /\ log[i].status # SUPPLY_NOT_CONNECTED)
        => (Done /\ ~Ready /\ err # "none")

\* C2: close_unit on a session that is not Ready (already closed or never
\* opened) issues no native CloseUnit call and raises nothing.
C2_CloseIsIdempotent ==
    (op.name = "close_unit" /\ Done)
    => /\ err = "none"
       /\ \A i \in 1..Len(log) : log[i].fn = "CloseUnit" => log[i].valid

\* C3: once the session is torn down, the handle a successful OpenUnit
\* acquired has been passed to the native CloseUnit exactly once.
C3_HandleReleasedExactlyOnce ==
    (pc = "dead" /\ sess.handle = DeviceHandle) => drv.closes = 1

\* C4: a native call answered with the warning status is not followed by a
\* CloseUnit, and an invocation whose calls were all answered with success
\* or the warning status ends without error, with the session open, having
\* made exactly the calls it makes when every call succeeds.
C4_WarningContinues ==
    /\ \A i \in 1..Len(log) :
          (log[i].status = SUPPLY_NOT_CONNECTED /\ i < Len(log))
          => log[i + 1].fn # "CloseUnit"
    /\ (/\ pc = "idle"
        /\ \E i \in 1..Len(log) : log[i].status = SUPPLY_NOT_CONNECTED
        /\ \A i \in 1..Len(log) :
              log[i].status \in {PICO_OK, SUPPLY_NOT_CONNECTED})
       => (err = "none" /\ Ready /\ Fns(Made) = SuccessPath(op))

\* an invocation that met the warning status and went on to its next call
C4_Witness ==
    /\ pc = "idle" /\ op.name = "open_unit" /\ err = "none" /\ Ready
    /\ Len(log) = 2
    /\ log[1].status = SUPPLY_NOT_CONNECTED

\* C5: a status that is absent from ERROR_STRING does not end the invocation
\* with the lookup failure; it is handled as a translated outcome.
C5_UnlistedStatusIsTranslated ==
    \A i \in 1..Len(log) :
        log[i].status \notin DOMAIN ERROR_STRING
        => err \in {"none", "PicoSDKException"}

\* C6: every configuration or capture call that reaches the driver is made
\* while the session is Ready.
C6_CallsOnlyWhileReady ==
    \A i \in 1..Len(log) : log[i].fn \in ConfigCaptureCalls => log[i].valid

\* C7: on an open session, set_simple_trigger on a channel with no recorded
\* range raises the
\* configuration error (PicoSDKException), makes no native call and leaves
\* the session and the range table as they were.
C7_TriggerOnUnconfiguredChannel ==
    [][(/\ pc = "idle"
        /\ drv.open /\ sess.handle = DeviceHandle
        /\ op'.name = "set_simple_trigger"
        /\ op'.channel \notin DOMAIN sess.range)
       => (/\ err' = "PicoSDKException"
           /\ log' = <<>>
           /\ drv' = drv
           /\ sess' = sess)]_vars

\* C8: the mapping set_data_buffer_for_enabled_channels returns has exactly
\* the channels whose latest set_channel had enabled = true, and it
\* registers no buffer for any other channel.
C8_DisabledChannelLeavesAllocation ==
    (/\ pc = "idle"
     /\ op.name = "set_data_buffer_for_enabled_channels"
     /\ err = "none")
    => (/\ DOMAIN ret = {c \in Channels : enabledReq[c]}
        /\ \A i \in 1..Len(log) :
              log[i].fn = "SetDataBuffer" => enabledReq[log[i].args.channel])

\* C9: a run_simple_block_capture that returns has registered a buffer for
\* every enabled channel, then armed the capture, then seen the driver
\* report ready, then retrieved the values, in this order; it returns those
\* buffers, each created during this invocation, and leaves the
\* acquisition Idle.
C9_RunSimpleBlockCapture ==
    (/\ pc = "idle"
     /\ op.name = "run_simple_block_capture"
     /\ err = "none")
    => LET n == Len(sess.keys)
       IN  /\ Len(Made) = n + 3
           /\ \A i \in 1..n :
                 /\ Made[i].fn = "SetDataBuffer"
                 /\ Made[i].args.channel = sess.keys[i]
                 /\ Made[i].args.channel \in DOMAIN ret
                 /\ Made[i].args.buffer = ret[sess.keys[i]]
           /\ Made[n + 1].fn = "RunBlock"
           /\ Made[n + 2].fn = "IsReady" /\ Made[n + 2].ready # 0
           /\ Made[n + 3].fn = "GetValues"
           /\ \A c \in Channels : enabledReq[c] => c \in DOMAIN ret
           /\ \A c \in DOMAIN ret : ret[c] >= BufBase /\ ret[c] < nextBuf
           /\ \A c, d \in DOMAIN ret : c # d => ret[c] # ret[d]
           /\ drv.acq = "Idle"

\* a capture of two channels after buffers were handed out before
C9_Witness ==
    /\ pc = "idle" /\ op.name = "run_simple_block_capture" /\ err = "none"
    /\ DOMAIN ret = Channels
    /\ BufBase > 1

\* C10: a native GetValues call is preceded, in the same invocation, by an
\* IsReady poll that the driver answered with a non-fatal status and a
\* non-zero ready flag.
C10_GetValuesAfterReady ==
    \A i \in 1..Len(log) :
        log[i].fn = "GetValues"
        => \E j \in 1..(i - 1) :
              /\ log[j].fn = "IsReady"
              /\ log[j].ready # 0
              /\ log[j].status \in {PICO_OK, SUPPLY_NOT_CONNECTED}

\* get_values that waited through a not-ready poll before retrieving
C10_Witness ==
    /\ op.name = "get_values" /\ pc = "idle" /\ err = "none"
    /\ Len(log) = 3
    /\ log[1].fn = "IsReady" /\ log[1].ready = 0
    /\ log[3].fn = "GetValues"

\* C11: the loop of is_ready has no timeout: (1) it is left only by a raise
\* or after a poll the driver answered ready with a non-fatal status, (2) a
\* poll answered not-ready with a success or warning status leaves the
\* method in the loop, however many polls came before, and (3) with a
\* driver that reports ready at some turn the method comes out of the loop.
C11_PollUntilReady ==
    /\ [][(pc = "poll" /\ pc' # "poll")
          => \/ err' # "none"
             \/ \E i \in 1..Len(log') :
                   /\ log'[i].fn = "IsReady"
                   /\ log'[i].ready # 0
                   /\ Accepted(log'[i].status)]_vars
    /\ [][(/\ pc = "poll"
           /\ Len(log') > 0
           /\ IsWaiting(log'[Len(log')])
           /\ Accepted(log'[Len(log')].status))
          => (pc' = "poll" /\ err' = "none")]_vars
    /\ (pc = "poll") ~> (pc # "poll")

\* is_ready inside its loop after a poll that was not ready
C11_Witness ==
    /\ pc = "poll" /\ op.name = "is_ready"
    /\ Len(log) = 1 /\ IsWaiting(log[1]) /\ log[1].status = PICO_OK

\* C11, second half: the method comes out of the loop whatever the driver
\* answers; refuted by the driver that keeps answering not-ready
C11_ReturnsWithoutTrigger == (pc = "poll") ~> (pc # "poll")

\* C12: for samples >= 0 and a whole pre_trig_percent of 0..100,
\* run_block_capture passes RunBlock pre_samples = floor(samples *
\* pre_trig_percent / 100) and post_samples = samples - pre_samples: the two
\* add up to samples, neither is negative, 0 percent gives no pre-trigger
\* sample and 100 percent no post-trigger sample.
C12_PrePostSplit ==
    \A i \in 1..Len(log) :
        (op.name = "run_block_capture" /\ log[i].fn = "RunBlock")
        => LET a == log[i].args
           IN  /\ a.pre_samples = (op.samples * op.pre_trig_percent) \div 100
               /\ a.post_samples = op.samples - a.pre_samples
               /\ a.pre_samples + a.post_samples = op.samples
               /\ a.pre_samples >= 0 /\ a.post_samples >= 0
               /\ op.pre_trig_percent = 0 => a.pre_samples = 0
               /\ op.pre_trig_percent = 100 => a.post_samples = 0

\* a capture whose split is not whole: 7 samples at 50 percent
C12_Witness ==
    /\ op.name = "run_block_capture" /\ err = "none"
    /\ op.samples = 7 /\ op.pre_trig_percent = 50
    /\ Len(log) = 1 /\ log[1].fn = "RunBlock"
    /\ log[1].args.pre_samples = 3 /\ log[1].args.post_samples = 4

\* the invocation asked for a buffer with an explicit argument after segment
BufferCall(o) ==
    /\ o.name \in {"set_data_buffer", "set_data_buffer_for_enabled_channels"}
    /\ o.arg # None

\* C13: on ps6000a a buffer request whose datatype is no DATA_TYPE member
\* raises PicoSDKException before anything else happens: no native call,
\* no array created, session and driver as they were (so an open session
\* stays open).
C13_InvalidDatatypeRejected ==
    [][(/\ gen = "ps6000a"
        /\ pc = "idle"
        /\ BufferCall(op')
        /\ The(op'.arg) \notin DataTypes
        /\ op'.name = "set_data_buffer_for_enabled_channels"
              => Len(sess.keys) > 0)
       => (/\ err' = "PicoSDKException"
           /\ log' = <<>>
           /\ nextBuf' = nextBuf
           /\ sess' = sess
           /\ drv' = drv)]_vars

\* an open ps6000a session that refused a buffer of an unknown datatype
C13_Witness ==
    /\ gen = "ps6000a" /\ Ready
    /\ op.name = "set_data_buffer" /\ op.arg = Some(MaxArg)
    /\ err = "PicoSDKException" /\ log = <<>>

\* C14: on an open ps5000a session a buffer request that names an element
\* type other than INT16_T raises PicoSDKException and makes no native
\* SetDataBuffer call.
C14_LegacyRejectsOtherWidths ==
    (/\ gen = "ps5000a"
     /\ Done /\ Ready
     /\ BufferCall(op)
     /\ The(op.arg) # INT16_T
     /\ op.name = "set_data_buffer_for_enabled_channels"
           => Len(sess.keys) > 0)
    => (/\ err = "PicoSDKException"
        /\ \A i \in 1..Len(log) : log[i].fn # "SetDataBuffer")

\* C15: a method that is not ported raises NotImplementedError and makes no
\* native call: run_simple_block_capture on ps5000a and
\* set_data_buffer_for_enabled_channels on PicoScopeBase.
C15_NotPortedRaisesNotImplemented ==
    (/\ Done
     /\ \/ op.name = "run_simple_block_capture" /\ gen = "ps5000a"
        \/ op.name = "PicoScopeBase.set_data_buffer_for_enabled_channels")
    => (err = "NotImplementedError" /\ log = <<>>)

\* C18: every array a buffer request registers has exactly the samples
\* elements asked for, all of them zero when SetDataBuffer is called, of the
\* element type of the datatype asked for; the length passed to
\* SetDataBuffer is samples, and the array returned for the channel is the
\* array registered.
C18_BufferHasSampleCountZeros ==
    op.name \in {"set_data_buffer", "set_data_buffer_for_enabled_channels"}
    => \A i \in 1..Len(log) :
          log[i].fn = "SetDataBuffer"
          => LET a == log[i].args
             IN  /\ a.samples = op.samples
                 /\ Len(a.cells) = op.samples
                 /\ \A k \in 1..Len(a.cells) : a.cells[k] = 0
                 /\ gen = "ps6000a"
                       => /\ a.datatype = Default(op.arg, INT16_T)
                          /\ a.ctype = CType(a.datatype)
                 /\ gen = "ps5000a" => a.ctype = "c_int16"
                 /\ err = "none"
                       => /\ a.channel \in DOMAIN ret
                          /\ ret[a.channel] = a.buffer

\* a buffer of MaxCells 32-bit elements registered on ps6000a
C18_Witness ==
    /\ gen = "ps6000a" /\ op.name = "set_data_buffer" /\ err = "none"
    /\ op.samples = MaxCells /\ op.arg = Some(INT32_T)
    /\ Len(log) = 1 /\ log[1].fn = "SetDataBuffer"
    /\ Len(log[1].args.cells) = MaxCells
    /\ log[1].args.ctype = "c_int32"

\* C16: a get_values that returns hands the caller the number of samples
\* the driver retrieved and the overflow flags the driver reported for the
\* call.
C16_GetValuesReturnsOverflow ==
    (op.name = "get_values" /\ Done /\ err = "none")
    => LET a == log[Len(log)].args
       IN  ret = [total_samples |-> a.total_samples, overflow |-> a.overflow]

\* C17: after an open_unit that returned, max_adc_value and min_adc_value
\* are both set; on ps5000a min_adc_value is 0.
C17_AdcLimitsPopulated ==
    (op.name = "open_unit" /\ Done /\ err = "none")
    => (/\ sess.max_adc_value # None
        /\ sess.min_adc_value # None
        /\ gen = "ps5000a" => sess.min_adc_value = Some(0))

\* C20: after set_data_buffer_for_enabled_channels has returned buffers for
\* two or more channels (alone, or as the first step of
\* run_simple_block_capture, which then waits to call GetValues), the driver
\* still has every returned buffer registered for its channel.
C20_EarlierRegistrationsKept ==
    (/\ \/ op.name = "set_data_buffer_for_enabled_channels" /\ Done
        \/ op.name = "run_simple_block_capture" /\ pc = "poll"
     /\ err = "none"
     /\ Cardinality(DOMAIN ret) >= 2)
    => \A c \in DOMAIN ret : drv.buf[c] = ret[c]

\* C19: for every range of the table and every code with |code| <=
\* max_adc_value, mv_to_adc(adc_to_mv(code, range), range) differs from code
\* by at most 1 (and, mv_to_adc truncating toward zero, never lies further
\* from zero than code).
C19_RoundTripWithinOne ==
    (op.name = "mv_to_adc" /\ err = "none")
    => /\ ret.adc - op.adc <= 1
       /\ op.adc - ret.adc <= 1
       /\ op.adc >= 0 => ret.adc <= op.adc
       /\ op.adc <= 0 => ret.adc >= op.adc

\* a code whose round trip does not give the code back
C19_Witness ==
    /\ op.name = "mv_to_adc" /\ err = "none" /\ Ready
    /\ op.adc > 0
    /\ ret.adc = op.adc - 1

\* C21: the native GetValues is called only for a capture that an accepted
\* RunBlock armed since the last retrieval (the driver is Armed or, after a
\* ready poll, DataReady), and a GetValues that completes leaves the
\* acquisition Idle.
C21_RetrievalOnlyWhenArmed ==
    [][(/\ pc = "poll"
        /\ \E i \in 1..Len(log') : log'[i].fn = "GetValues")
       => (/\ drv.acq \in {"Armed", "DataReady"}
           /\ err' = "none" => drv'.acq = "Idle")]_vars

\* the driver answered the i-th native call of the invocation with a fatal
\* status
FatalAt(i) == log[i].fn # "CloseUnit" /\ ~Accepted(log[i].status)

\* C22: when the driver answers a step of run_simple_block_capture on an
\* open session with a fatal status, the only native call after it is the closing CloseUnit,
\* the method raises (no mapping is returned), the acquisition is Idle and
\* the session is Closed.
C22_FatalAbortsSimpleCapture ==
    \A i \in 1..Len(log) :
        (op.name = "run_simple_block_capture" /\ FatalAt(i) /\ log[i].valid)
        => /\ Done
           /\ Len(log) = i + 1 /\ log[i + 1].fn = "CloseUnit"
           /\ err # "none" /\ ret = <<>>
           /\ drv.acq = "Idle"
           /\ ~drv.open

\* C23: a set_channel on an open session whose native call the driver
\* accepts with enabled = true records its range for the channel; one whose
\* native call fails, or that disables the channel, leaves the range table
\* as it was.  The table then holds, per channel, the range of the latest
\* accepted enable.
C23_RangeTableInSync ==
    [][(/\ pc = "idle" /\ Ready
        /\ op'.name = "set_channel"
        /\ Len(log') > 0)
       => IF Accepted(log'[1].status) /\ op'.enabled
          THEN /\ op'.channel \in DOMAIN sess'.range
               /\ sess'.range[op'.channel] = op'.range
          ELSE sess'.range = sess.range /\ sess'.keys = sess.keys]_vars

\* C24: while a capture is armed with a simple trigger in force, the ADC
\* threshold the driver holds is mv_to_adc of the trigger's 500 mV at the
\* range now recorded for the trigger's channel.
C24_ThresholdUsesCurrentRange ==
    (/\ Ready
     /\ drv.acq = "Armed"
     /\ drv.trig # None)
    => /\ drv.trig.channel \in DOMAIN sess.range
       /\ drv.trig.threshold =
             mv_to_adc(The(sess.max_adc_value), 500,
                       sess.range[drv.trig.channel])

\* C25: on an open session an accepted setter of the signal generator
\* changes its own setting and no other: _siggen_set_waveform the waveform
\* type, _siggen_set_range the peak-to-peak range and the offset,
\* _siggen_set_frequency the frequency.
C25_SigGenSettersIndependent ==
    [][(pc = "idle" /\ Ready /\ err' = "none")
       => /\ op'.name = "_siggen_set_waveform"
               => drv'.sig = [drv.sig EXCEPT !.wave = op'.value]
          /\ op'.name = "_siggen_set_range"
               => drv'.sig = [drv.sig EXCEPT !.pk2pk = op'.value,
                                             !.offset = op'.offset]
          /\ op'.name = "_siggen_set_frequency"
               => drv'.sig = [drv.sig EXCEPT !.freq = op'.value]]_vars

\* C26: within one invocation no native entry point is called twice, apart
\* from the IsReady polls and the SetDataBuffer calls of different channels
\* after an accepted one, and an entry point the driver answered with a
\* fatal status is not called again.
C26_NoRetry ==
    \A i, j \in 1..Len(log) :
        (i < j /\ log[i].fn = log[j].fn)
        => /\ Accepted(log[i].status)
           /\ \/ log[i].fn = "IsReady"
              \/ /\ log[i].fn = "SetDataBuffer"
                 /\ log[i].args.channel # log[j].args.channel

\* a set_channel on an open session that the driver refused: the call was
\* made once and only CloseUnit followed
C26_Witness ==
    /\ op.name = "set_channel" /\ Done /\ err = "PicoSDKException"
    /\ Len(log) = 2
    /\ log[1].valid /\ log[1].status = PICO_INVALID_HANDLE
    /\ log[2].fn = "CloseUnit"

\* the session was opened and the driver has released its device since
Closed == sess.handle = DeviceHandle /\ ~drv.open

\* C27: no operation takes a Closed session back to Ready.
C27_ClosedIsTerminal == [][Closed => ~Ready']_vars

====
